---------------------------- MODULE Spec2Model ----------------------------
(***************************************************************************)
(* Model of blendingwaves_prod_v1:                                         *)
(*   - src/main.js : the liquid displacement effect (LIQUID_HERO): page    *)
(*     initialisation, pointer tracking, the two-pass ping-pong frame      *)
(*     loop and the resize handler;                                        *)
(*   - src/main.go : the content server's request handlers.                *)
(*                                                                         *)
(* Numbers.  Every real number is held as an integer count of the unit     *)
(* 2^-UnitBits.  Shader arithmetic is binary floating point: a value has   *)
(* at most MantissaBits significant bits, every operation rounds to        *)
(* nearest (ties to even), and magnitudes below 2^(MantissaBits-1) units   *)
(* are the subnormal range, which a GLSL implementation may flush to zero  *)
(* (flushDenormals).  The JavaScript side computes in doubles on client    *)
(* coordinates and power-of-two canvas sizes; those quotients and          *)
(* differences are dyadic and exact, so they are computed exactly.         *)
(***************************************************************************)
EXTENDS Integers, Sequences, FiniteSets, TLC

VARIABLES
    (* ---- platform (fixed by the build / device, chosen in Init) ---- *)
    canvasPresent,          \* document.getElementById('interactive-liquid-canvas') found
    threePresent,           \* typeof THREE !== 'undefined'
    flushDenormals,         \* the GPU flushes subnormal results to zero
    reversedSmoothstep,     \* what smoothstep yields when edge0 >= edge1
    (* ---- page ---- *)
    phase,                  \* "loading" | "running" | "fallback"
    webglFailed,            \* document.body has class 'webgl-failed'
    initCalls,              \* number of calls of LIQUID_HERO.init
    listeners,              \* window listeners registered by LIQUID_HERO.init
    innerWidth, innerHeight,\* window.innerWidth / window.innerHeight
    (* ---- LIQUID_HERO.init closure state ---- *)
    rendererSize,           \* renderer.setSize: the visible surface
    rtSize,                 \* size of each WebGLRenderTarget
    tex,                    \* contents (rg) of each render target's texture
    uResolution,            \* displacementUpdateMaterial.uniforms.uResolution
    mouse, lastMouse, mouseVelocity,
    currentRenderTarget, previousRenderTarget,
    uLastFrame,             \* displacementUpdateMaterial.uniforms.uLastFrame
    uDisplacementMap,       \* finalRenderMaterial.uniforms.uDisplacementMap
    (* ---- frame loop ---- *)
    pc,                     \* position inside animate(), "idle" outside it
    rafPending,             \* animation frame requests not yet called back
    frames,                 \* frames completed (counted up to MaxFrames)
    (* ---- what the render passes of the current/last frame did ---- *)
    stepLog,                \* steps of the current (or last) frame, in order
    updateRead, updateWrote,\* texture read / target written by the Update Pass
    compositeRead,          \* texture read by the Composite Pass
    frameVelocity,          \* uMouseVelocity the last Update Pass used
    pointerNow,             \* position delivered by the most recent pointer event
    lastEvent,              \* its client coordinates and the canvas rectangle's size
    sampled,                \* pointerNow at the previous and at the last frame
    brush,                  \* per texel: distance and contribution of the last Update Pass
    (* ---- content server ---- *)
    serverState,            \* "starting" | "serving" | "exited"
    responses               \* responses completed so far

browserVars == << canvasPresent, threePresent, flushDenormals, reversedSmoothstep,
                  phase, webglFailed, initCalls, listeners, innerWidth, innerHeight,
                  rendererSize, rtSize, tex, uResolution, mouse, lastMouse,
                  mouseVelocity, currentRenderTarget, previousRenderTarget,
                  uLastFrame, uDisplacementMap, pc, rafPending, frames, stepLog,
                  updateRead, updateWrote, compositeRead, frameVelocity, pointerNow, lastEvent,
                  sampled,
                  brush >>

serverVars == << serverState, responses >>

vars == << browserVars, serverVars >>

-----------------------------------------------------------------------------
(* Bounds *)

MaxFrames == 4        \* frames run in Spec
MantissaBits == 5     \* significant bits of the shader's floating point
UnitBits == 8         \* the unit is 2^-UnitBits
MaxRequests == 3      \* requests served in ServerSpec

-----------------------------------------------------------------------------
(* Floating point *)

RECURSIVE Pow2(_)
Pow2(n) == IF n = 0 THEN 1 ELSE 2 * Pow2(n - 1)

One == Pow2(UnitBits)

Abs(x) == IF x < 0 THEN -x ELSE x

\* n/d (n >= 0, d > 0) rounded to the nearest integer, ties to even
RoundHalfEven(n, d) ==
    LET q == n \div d
        r == n % d
    IN  IF 2 * r < d THEN q
        ELSE IF 2 * r > d THEN q + 1
        ELSE IF q % 2 = 0 THEN q ELSE q + 1

\* spacing of the representable values around k units
RECURSIVE Quantum(_)
Quantum(k) == IF k < Pow2(MantissaBits) THEN 1 ELSE 2 * Quantum(k \div 2)

\* subnormal results are flushed to zero where the platform does so
Flush(k) == IF flushDenormals /\ k < Pow2(MantissaBits - 1) THEN 0 ELSE k

\* the representable value nearest to |n/d| units
RoundMag(n, d) ==
    LET s == Quantum(n \div d)
    IN  Flush(s * RoundHalfEven(n, d * s))

\* the representable value nearest to n/d units (d > 0)
Fl(n, d) == IF n < 0 THEN -RoundMag(-n, d) ELSE RoundMag(n, d)

FAdd(a, b) == Fl(a + b, 1)
FSub(a, b) == Fl(a - b, 1)
FMul(a, b) == Fl(a * b, One)
FDiv(a, b) == IF b < 0 THEN Fl(-(a * One), -b) ELSE Fl(a * One, b)

RECURSIVE ISqrt(_)
ISqrt(n) ==
    IF n < 2 THEN n
    ELSE LET r == 2 * ISqrt(n \div 4)
         IN  IF (r + 1) * (r + 1) <= n THEN r + 1 ELSE r

\* sqrt(a), correctly rounded: sqrt(a / One) in units is sqrt(a * One)
FSqrt(a) ==
    LET n  == a * One
        r  == ISqrt(n)
        s  == Quantum(r)
        lo == s * (r \div s)
        hi == lo + s
        m2 == (lo + hi) * (lo + hi)          \* (2 * midpoint)^2
    IN  Flush(IF 4 * n < m2 THEN lo
              ELSE IF 4 * n > m2 THEN hi
              ELSE IF (lo \div s) % 2 = 0 THEN lo ELSE hi)

\* a decimal literal p/q of the shader source
Literal(p, q) == Fl(p * One, q)

-----------------------------------------------------------------------------
(* Render targets, textures, geometry *)

RenderTargets == {"rtA", "rtB"}

\* window sizes (innerWidth, innerHeight), in pixels: aspect ratios 1 and 2
Viewports == { << 1, 1 >>, << 2, 1 >> }

\* pointer client coordinates, in eighths of a pixel: 0.5, 0.625 and 1.5 px
\* across, 0.5 px down
ClientXs == { 4, 5, 12 }
ClientYs == { 4 }

NoSize == << 0, 0 >>

Texels(sz) == (0..(sz[1] - 1)) \X (0..(sz[2] - 1))

\* a freshly allocated float texture: WebGL storage starts zeroed
ZeroTexture(sz) == [ t \in Texels(sz) |-> << 0, 0 >> ]

\* vUv of the fragment at texel t of a target of size sz (the fragment's centre)
vUv(t, sz) == << Fl((2 * t[1] + 1) * One, 2 * sz[1]),
                 Fl((2 * t[2] + 1) * One, 2 * sz[2]) >>

Clamp(x, lo, hi) == IF x < lo THEN lo ELSE IF x > hi THEN hi ELSE x

\* texture2D(sampler, uv).rg on the texture of render target id
texture2D(id, uv) ==
    LET sz == rtSize[id]
        i  == Clamp((uv[1] * sz[1]) \div One, 0, sz[1] - 1)
        j  == Clamp((uv[2] * sz[2]) \div One, 0, sz[2] - 1)
    IN  tex[id][<< i, j >>]

\* WebGLRenderTarget.setSize: a changed size disposes the storage
SetSize(f, id, sz) ==
    IF id \in DOMAIN f /\ DOMAIN f[id] = Texels(sz) THEN f[id] ELSE ZeroTexture(sz)

-----------------------------------------------------------------------------
(* Displacement Update Pass: the fragment shader of displacementUpdateMaterial *)

\* no damping
DecayFactorOne == One

\* 0.95, as the shader's float
DecayFactor == Literal(95, 100)

Radius == Literal(2, 10)

BrushGain == Literal(25, 10)

Hermite(t) == FMul(FMul(t, t), FSub(3 * One, FMul(2 * One, t)))

\* GLSL smoothstep.  With edge0 >= edge1 the result is undefined by the
\* language (GLSL ES 1.00, 8.3): an implementation either evaluates the
\* clamp formula as it stands, or decides by x <= edge0 / x >= edge1 first.
smoothstep(edge0, edge1, x) ==
    IF edge0 < edge1 \/ reversedSmoothstep = "clamp"
    THEN Hermite(Clamp(FDiv(FSub(x, edge0), FSub(edge1, edge0)), 0, One))
    ELSE IF x <= edge0 THEN 0 ELSE One

\* distance(a, b)
distance(a, b) ==
    LET dx == FSub(a[1], b[1])
        dy == FSub(a[2], b[2])
    IN  FSqrt(FAdd(FMul(dx, dx), FMul(dy, dy)))

\* the edges written in ascending order
StrengthAscendingEdges(dist) == smoothstep(0, Radius, dist)

\* float strength = smoothstep(radius, 0.0, dist)
Strength(dist) == smoothstep(Radius, 0, dist)

\* a uniform upload converts the JavaScript number to the shader's float
Uniform(v) == << Fl(v[1], 1), Fl(v[2], 1) >>

\* main() of the update shader at the fragment of texel t
UpdateFragment(t) ==
    LET sz          == rtSize[currentRenderTarget]
        uv          == vUv(t, sz)
        last        == texture2D(uLastFrame, uv)
        lastDisp    == << FMul(last[1], DecayFactor), FMul(last[2], DecayFactor) >>
        aspectRatio == FDiv(uResolution[1] * One, uResolution[2] * One)
        uMousePos   == Uniform(mouse)
        uMouseVel   == Uniform(mouseVelocity)
        correctedUv    == << FMul(uv[1], aspectRatio), uv[2] >>
        correctedMouse == << FMul(uMousePos[1], aspectRatio), uMousePos[2] >>
        dist        == distance(correctedUv, correctedMouse)
        strength    == Strength(dist)
        added       == << FMul(FMul(uMouseVel[1], strength), BrushGain),
                          FMul(FMul(uMouseVel[2], strength), BrushGain) >>
    IN  [ read  |-> last,
          dist  |-> dist,
          added |-> added,
          out   |-> << FAdd(lastDisp[1], added[1]), FAdd(lastDisp[2], added[2]) >> ]

-----------------------------------------------------------------------------
(* Page initialisation: the DOMContentLoaded handler and LIQUID_HERO.init *)

Unset == << -One, -One >>       \* new THREE.Vector2(-1, -1)

\* LIQUID_HERO.init(canvas), up to the call of animate() that ends it
LiquidHeroInit ==
    LET size == << innerWidth, innerHeight >>
    IN  /\ initCalls' = initCalls + 1
        /\ phase' = "running"
        /\ rendererSize' = size
        /\ mouse' = Unset
        /\ lastMouse' = Unset
        /\ mouseVelocity' = << 0, 0 >>
        /\ listeners' = listeners \cup {"mousemove", "touchmove", "resize"}
        /\ currentRenderTarget' = "rtA"
        /\ previousRenderTarget' = "rtB"
        /\ rtSize' = [ r \in RenderTargets |-> size ]
        /\ tex' = [ r \in RenderTargets |-> ZeroTexture(size) ]
        /\ uLastFrame' = previousRenderTarget'
        /\ uDisplacementMap' = currentRenderTarget'
        /\ uResolution' = size
        /\ pc' = "request"                  \* animate() is called directly
        /\ UNCHANGED webglFailed

\* the else branch: the fallback marker
MarkFailed ==
    /\ webglFailed' = TRUE
    /\ phase' = "fallback"
    /\ UNCHANGED << initCalls, rendererSize, mouse, lastMouse, mouseVelocity,
                    listeners, currentRenderTarget, previousRenderTarget, rtSize,
                    tex, uLastFrame, uDisplacementMap, uResolution, pc >>

\* || written for &&
CanInitEither == canvasPresent \/ threePresent

\* if (canvas && typeof THREE !== 'undefined')
CanInit == canvasPresent /\ threePresent

DOMContentLoaded ==
    /\ phase = "loading"
    /\ IF CanInit THEN LiquidHeroInit ELSE MarkFailed
    /\ UNCHANGED << canvasPresent, threePresent, flushDenormals, reversedSmoothstep,
                    innerWidth, innerHeight, rafPending, frames, stepLog,
                    updateRead, updateWrote, compositeRead, frameVelocity,
                    pointerNow, lastEvent, sampled, brush, serverVars >>

-----------------------------------------------------------------------------
(* Pointer tracking *)

\* normalized device coordinates in [-1, 1], as a raycaster would want them
NormalizedDevicePosition(cx, cy) ==
    LET width  == 8 * rendererSize[1]
        height == 8 * rendererSize[2]
    IN  << 2 * ((cx * One) \div width) - One, One - 2 * ((cy * One) \div height) >>

\* the position of line 90-91 for client coordinates (cx, cy),
\* given in eighths of a pixel, relative to canvas.getBoundingClientRect():
\* the canvas sits at the viewport origin with the size renderer.setSize gave it
NormalizedPosition(cx, cy) ==
    LET width  == 8 * rendererSize[1]
        height == 8 * rendererSize[2]
    IN  << (cx * One) \div width, One - ((cy * One) \div height) >>

\* the velocity derived in the event handler, per event
updateMousePositionPerEvent(cx, cy) ==
    /\ mouse' = NormalizedPosition(cx, cy)
    /\ mouseVelocity' = << mouse'[1] - mouse[1], mouse'[2] - mouse[2] >>
    /\ lastMouse' = mouse

updateMousePosition(cx, cy) ==
    /\ mouse' = NormalizedPosition(cx, cy)
    /\ UNCHANGED << lastMouse, mouseVelocity >>

PointerUnchanged ==
    UNCHANGED << canvasPresent, threePresent, flushDenormals, reversedSmoothstep,
                 phase, webglFailed, initCalls, listeners, innerWidth, innerHeight,
                 rendererSize, rtSize, tex, uResolution, currentRenderTarget,
                 previousRenderTarget, uLastFrame, uDisplacementMap, pc, rafPending,
                 frames, stepLog, updateRead, updateWrote, compositeRead,
                 frameVelocity, sampled, brush, serverVars >>

\* window 'mousemove'
MouseMove ==
    /\ pc = "idle"
    /\ "mousemove" \in listeners
    /\ \E cx \in ClientXs, cy \in ClientYs :
          /\ updateMousePosition(cx, cy)
          /\ pointerNow' = NormalizedPosition(cx, cy)
          /\ lastEvent' = << cx, cy, 8 * rendererSize[1], 8 * rendererSize[2] >>
    /\ PointerUnchanged

\* window 'touchmove': only event.touches[0] is used, and only if there is one
TouchMove ==
    /\ pc = "idle"
    /\ "touchmove" \in listeners
    /\ \E touches \in {<< >>} \cup { << c >> : c \in ClientXs \X ClientYs } :
          IF Len(touches) > 0
          THEN /\ updateMousePosition(touches[1][1], touches[1][2])
               /\ pointerNow' = NormalizedPosition(touches[1][1], touches[1][2])
               /\ lastEvent' = << touches[1][1], touches[1][2],
                                  8 * rendererSize[1], 8 * rendererSize[2] >>
          ELSE UNCHANGED << mouse, lastMouse, mouseVelocity, pointerNow, lastEvent >>
    /\ PointerUnchanged

-----------------------------------------------------------------------------
(* Resize *)

\* previousRenderTarget.setSize left out
onWindowResizeOneTarget(newWidth, newHeight) ==
    LET sz == << newWidth, newHeight >>
    IN  /\ rendererSize' = sz
        /\ rtSize' = [ rtSize EXCEPT ![currentRenderTarget] = sz ]
        /\ tex' = [ tex EXCEPT ![currentRenderTarget] = SetSize(tex, currentRenderTarget, sz) ]
        /\ uResolution' = sz

\* onWindowResize, run with the new window.innerWidth / innerHeight
onWindowResize(newWidth, newHeight) ==
    LET sz == << newWidth, newHeight >>
    IN  /\ rendererSize' = sz
        /\ rtSize' = [ rtSize EXCEPT ![currentRenderTarget] = sz,
                                     ![previousRenderTarget] = sz ]
        /\ tex' = [ tex EXCEPT ![currentRenderTarget] = SetSize(tex, currentRenderTarget, sz),
                               ![previousRenderTarget] = SetSize(tex, previousRenderTarget, sz) ]
        /\ uResolution' = sz

\* the window changes size and dispatches 'resize'
WindowResize ==
    /\ pc = "idle"
    /\ phase # "loading"
    /\ \E v \in Viewports :
          /\ v # << innerWidth, innerHeight >>
          /\ innerWidth' = v[1]
          /\ innerHeight' = v[2]
          /\ IF "resize" \in listeners
             THEN onWindowResize(v[1], v[2])
             ELSE UNCHANGED << rendererSize, rtSize, tex, uResolution >>
    /\ UNCHANGED << canvasPresent, threePresent, flushDenormals, reversedSmoothstep,
                    phase, webglFailed, initCalls, listeners, mouse, lastMouse,
                    mouseVelocity, currentRenderTarget, previousRenderTarget,
                    uLastFrame, uDisplacementMap, pc, rafPending, frames, stepLog,
                    updateRead, updateWrote, compositeRead, frameVelocity,
                    pointerNow, lastEvent, sampled, brush, serverVars >>

-----------------------------------------------------------------------------
(* Frame loop: animate() *)

FrameUnchanged ==
    UNCHANGED << canvasPresent, threePresent, flushDenormals, reversedSmoothstep,
                 phase, webglFailed, initCalls, listeners, innerWidth, innerHeight,
                 rendererSize, rtSize, uResolution, mouse, pointerNow, lastEvent,
                 serverVars >>

\* the browser runs a requested animation frame callback
FrameCallback ==
    /\ phase = "running"
    /\ pc = "idle"
    /\ rafPending > 0
    /\ rafPending' = rafPending - 1
    /\ pc' = "request"
    /\ stepLog' = << >>
    /\ UNCHANGED << tex, lastMouse, mouseVelocity, currentRenderTarget,
                    previousRenderTarget, uLastFrame, uDisplacementMap, frames,
                    updateRead, updateWrote, compositeRead, frameVelocity,
                    sampled, brush >>
    /\ FrameUnchanged

\* the frame requested twice
RequestNextFrameTwice == rafPending' = rafPending + 2

\* requestAnimationFrame(animate)
RequestNextFrame == rafPending' = rafPending + 1

AnimateRequest ==
    /\ pc = "request"
    /\ RequestNextFrame
    /\ pc' = "velocity"
    /\ stepLog' = Append(stepLog, "request")
    /\ UNCHANGED << tex, lastMouse, mouseVelocity, currentRenderTarget,
                    previousRenderTarget, uLastFrame, uDisplacementMap, frames,
                    updateRead, updateWrote, compositeRead, frameVelocity,
                    sampled, brush >>
    /\ FrameUnchanged

\* mouseVelocity.copy(mouse).sub(lastMouse); lastMouse.copy(mouse)
UpdateVelocity ==
    /\ mouseVelocity' = << mouse[1] - lastMouse[1], mouse[2] - lastMouse[2] >>
    /\ lastMouse' = mouse

AnimateVelocity ==
    /\ pc = "velocity"
    /\ UpdateVelocity
    /\ sampled' = << sampled[2], pointerNow >>
    /\ pc' = "update"
    /\ stepLog' = Append(stepLog, "velocity")
    /\ UNCHANGED << tex, currentRenderTarget, previousRenderTarget, uLastFrame,
                    uDisplacementMap, frames, rafPending, updateRead, updateWrote,
                    compositeRead, frameVelocity, brush >>
    /\ FrameUnchanged

\* Render Pass 1: displacementUpdateMaterial rendered into currentRenderTarget
UpdatePass ==
    LET frag == [ t \in Texels(rtSize[currentRenderTarget]) |-> UpdateFragment(t) ]
    IN  /\ tex' = [ tex EXCEPT ![currentRenderTarget] =
                        [ t \in DOMAIN frag |-> frag[t].out ] ]
        /\ brush' = [ t \in DOMAIN frag |->
                        [ read |-> frag[t].read, dist |-> frag[t].dist,
                          added |-> frag[t].added ] ]
        /\ updateRead' = uLastFrame
        /\ updateWrote' = currentRenderTarget
        /\ frameVelocity' = Uniform(mouseVelocity)

AnimateUpdatePass ==
    /\ pc = "update"
    /\ UpdatePass
    /\ pc' = "composite"
    /\ stepLog' = Append(stepLog, "update")
    /\ UNCHANGED << lastMouse, mouseVelocity, currentRenderTarget,
                    previousRenderTarget, uLastFrame, uDisplacementMap, frames,
                    rafPending, compositeRead, sampled >>
    /\ FrameUnchanged

\* Render Pass 2: finalRenderMaterial rendered to the screen; it samples
\* uDisplacementMap (the colours come from the two images, which are not state)
CompositePass == compositeRead' = uDisplacementMap

AnimateCompositePass ==
    /\ pc = "composite"
    /\ CompositePass
    /\ pc' = "swap"
    /\ stepLog' = Append(stepLog, "composite")
    /\ UNCHANGED << tex, lastMouse, mouseVelocity, currentRenderTarget,
                    previousRenderTarget, uLastFrame, uDisplacementMap, frames,
                    rafPending, updateRead, updateWrote, frameVelocity, sampled,
                    brush >>
    /\ FrameUnchanged

\* the swap without the update of uLastFrame
SwapTargetsStaleLastFrame ==
    /\ previousRenderTarget' = currentRenderTarget
    /\ currentRenderTarget' = previousRenderTarget
    /\ uLastFrame' = uLastFrame
    /\ uDisplacementMap' = currentRenderTarget'

\* the swap with the composite pass given the buffer just written
SwapTargetsMapOfPrevious ==
    /\ previousRenderTarget' = currentRenderTarget
    /\ currentRenderTarget' = previousRenderTarget
    /\ uLastFrame' = previousRenderTarget'
    /\ uDisplacementMap' = previousRenderTarget'

\* the ping-pong swap and the two uniform updates that follow it
SwapTargets ==
    /\ previousRenderTarget' = currentRenderTarget
    /\ currentRenderTarget' = previousRenderTarget
    /\ uLastFrame' = previousRenderTarget'
    /\ uDisplacementMap' = currentRenderTarget'

AnimateSwap ==
    /\ pc = "swap"
    /\ SwapTargets
    /\ pc' = "idle"
    /\ frames' = IF frames < MaxFrames THEN frames + 1 ELSE frames
    /\ stepLog' = Append(stepLog, "swap")
    /\ UNCHANGED << tex, lastMouse, mouseVelocity, rafPending, updateRead,
                    updateWrote, compositeRead, frameVelocity, sampled, brush >>
    /\ FrameUnchanged

-----------------------------------------------------------------------------
(* Content server: main() and the handlers of src/main.go *)

\* http.ResponseWriter: status 0 until the header is written
NewResponse == [ status |-> 0, body |-> << >> ]

\* w.Write: the first write sends the header with 200 if none was sent
Write(w, chunk) ==
    [ status |-> IF w.status = 0 THEN 200 ELSE w.status,
      body   |-> Append(w.body, chunk) ]

\* w.WriteHeader: ignored once the header is out
WriteHeader(w, code) == IF w.status = 0 THEN [ w EXCEPT !.status = code ] ELSE w

\* http.Error(w, err.Error(), http.StatusInternalServerError)
HttpError(w) == Write(WriteHeader(w, 500), << "error" >>)

\* how one template execution goes: it succeeds, fails before it has written
\* anything, or fails after part of its output went to w
Outcomes == {"ok", "failEarly", "failPartial"}

\* tmpl.ExecuteTemplate(w, name, data): the template writes to w as it runs
ExecuteTemplate(w, name, outcome) ==
    CASE outcome = "ok"          -> Write(w, << name >>)
      [] outcome = "failEarly"   -> w
      [] outcome = "failPartial" -> Write(w, << name, "partial" >>)

\* the server completes a response: a handler that wrote nothing yields 200
Finish(w) == IF w.status = 0 THEN [ w EXCEPT !.status = 200 ] ELSE w

homeHandler(outcome) ==
    LET w1 == ExecuteTemplate(NewResponse, "home.html", outcome)
    IN  IF outcome # "ok" THEN HttpError(w1) ELSE w1

\* the handlers of /privacy, /tou and /non: header, fixed content, footer
InfoHandler(content, headerOutcome, footerOutcome) ==
    LET w1 == ExecuteTemplate(NewResponse, "header.html", headerOutcome)
    IN  IF headerOutcome # "ok" THEN HttpError(w1)
        ELSE LET w2 == Write(w1, << content >>)
                 w3 == ExecuteTemplate(w2, "footer.html", footerOutcome)
             IN  IF footerOutcome # "ok" THEN HttpError(w3) ELSE w3

Respond(route, w, failed) ==
    /\ serverState = "serving"
    /\ Len(responses) < MaxRequests
    /\ responses' = Append(responses,
           [ route |-> route, status |-> Finish(w).status, body |-> w.body,
             templateFailed |-> failed ])
    /\ UNCHANGED << serverState, browserVars >>

\* main(): loadItems, template.ParseFiles and net.Listen each end the
\* process (log.Fatalf) when they fail
Startup ==
    /\ serverState = "starting"
    /\ \E itemsOk \in BOOLEAN, templatesOk \in BOOLEAN, listenOk \in BOOLEAN :
          serverState' = IF itemsOk /\ templatesOk /\ listenOk
                         THEN "serving" ELSE "exited"
    /\ UNCHANGED << responses, browserVars >>

ServeHome ==
    \E o \in Outcomes : Respond("/", homeHandler(o), o # "ok")

ServePrivacy ==
    \E h \in Outcomes, f \in Outcomes :
        Respond("/privacy", InfoHandler("privacy", h, f), h # "ok" \/ f # "ok")

ServeTou ==
    \E h \in Outcomes, f \in Outcomes :
        Respond("/tou", InfoHandler("tou", h, f), h # "ok" \/ f # "ok")

ServeNon ==
    \E h \in Outcomes, f \in Outcomes :
        Respond("/non", InfoHandler("non", h, f), h # "ok" \/ f # "ok")

-----------------------------------------------------------------------------
(* Specifications *)

Init ==
    /\ canvasPresent \in BOOLEAN
    /\ threePresent \in BOOLEAN
    /\ flushDenormals \in BOOLEAN
    /\ reversedSmoothstep \in {"clamp", "piecewise"}
    /\ phase = "loading"
    /\ webglFailed = FALSE
    /\ initCalls = 0
    /\ listeners = {}
    /\ \E v \in Viewports : innerWidth = v[1] /\ innerHeight = v[2]
    /\ rendererSize = NoSize
    /\ rtSize = [ r \in RenderTargets |-> NoSize ]
    /\ tex = [ r \in RenderTargets |-> ZeroTexture(NoSize) ]
    /\ uResolution = NoSize
    /\ mouse = Unset
    /\ lastMouse = Unset
    /\ mouseVelocity = << 0, 0 >>
    /\ currentRenderTarget = "rtA"
    /\ previousRenderTarget = "rtB"
    /\ uLastFrame = "rtB"
    /\ uDisplacementMap = "rtA"
    /\ pc = "idle"
    /\ rafPending = 0
    /\ frames = 0
    /\ stepLog = << >>
    /\ updateRead = "none"
    /\ updateWrote = "none"
    /\ compositeRead = "none"
    /\ frameVelocity = << 0, 0 >>
    /\ pointerNow = Unset
    /\ lastEvent = << >>
    /\ sampled = << Unset, Unset >>
    /\ brush = << >>
    /\ serverState = "starting"
    /\ responses = << >>

\* Spec runs MaxFrames frames
BoundedFrameCallback == frames < MaxFrames /\ FrameCallback

Next ==
    \/ DOMContentLoaded
    \/ MouseMove
    \/ TouchMove
    \/ WindowResize
    \/ BoundedFrameCallback
    \/ AnimateRequest
    \/ AnimateVelocity
    \/ AnimateUpdatePass
    \/ AnimateCompositePass
    \/ AnimateSwap

Spec == Init /\ [][Next]_vars


(* The decay run: the simulation at rest between frames, holding an arbitrary
   field of normal magnitude, with the pointer still.  Only frames run, and
   the display keeps calling them back. *)

StartValues ==
    { v \in { Fl(k, 1) : k \in (-(4 * One))..(4 * One) } :
          Abs(v) >= Pow2(MantissaBits - 1) }

DecayInit ==
    /\ canvasPresent = TRUE
    /\ threePresent = TRUE
    /\ flushDenormals \in BOOLEAN
    /\ reversedSmoothstep \in {"clamp", "piecewise"}
    /\ phase = "running"
    /\ webglFailed = FALSE
    /\ initCalls = 1
    /\ listeners = {"mousemove", "touchmove", "resize"}
    /\ \E v \in Viewports :
          /\ innerWidth = v[1]
          /\ innerHeight = v[2]
          /\ rendererSize = v
          /\ rtSize = [ r \in RenderTargets |-> v ]
          /\ uResolution = v
          /\ \E r \in StartValues, g \in {0, 1} :
                tex = [ id \in RenderTargets |->
                          IF id = "rtA" THEN [ t \in Texels(v) |-> << r, -(g * r) >> ]
                          ELSE ZeroTexture(v) ]
          /\ brush = [ t \in Texels(v) |->
                         [ read |-> << 0, 0 >>, dist |-> 0, added |-> << 0, 0 >> ] ]
    /\ \E p \in { Unset, << One \div 2, One \div 2 >> } :
          /\ mouse = p
          /\ lastMouse = p
          /\ pointerNow = p
          /\ sampled = << p, p >>
    /\ lastEvent = << >>
    /\ mouseVelocity = << 0, 0 >>
    /\ currentRenderTarget = "rtB"
    /\ previousRenderTarget = "rtA"
    /\ uLastFrame = "rtA"
    /\ uDisplacementMap = "rtB"
    /\ pc = "idle"
    /\ rafPending = 1
    /\ frames = MaxFrames
    /\ stepLog = << "request", "velocity", "update", "composite", "swap" >>
    /\ updateRead = "rtB"
    /\ updateWrote = "rtA"
    /\ compositeRead = "rtA"
    /\ frameVelocity = << 0, 0 >>
    /\ serverState = "starting"
    /\ responses = << >>

DecayNext ==
    \/ FrameCallback
    \/ AnimateRequest
    \/ AnimateVelocity
    \/ AnimateUpdatePass
    \/ AnimateCompositePass
    \/ AnimateSwap

DecaySpec == DecayInit /\ [][DecayNext]_vars /\ WF_vars(DecayNext)

(* The content server alone *)

ServerNext ==
    \/ Startup
    \/ ServeHome
    \/ ServePrivacy
    \/ ServeTou
    \/ ServeNon

ServerInit ==
    /\ Init
    /\ canvasPresent
    /\ threePresent
    /\ ~flushDenormals
    /\ reversedSmoothstep = "clamp"
    /\ innerWidth = 1

ServerSpec == ServerInit /\ [][ServerNext]_vars

-----------------------------------------------------------------------------
(* Properties *)

Running == phase = "running"

FrameSteps == << "request", "velocity", "update", "composite", "swap" >>

IsPrefix(a, b) == Len(a) <= Len(b) /\ \A i \in 1..Len(a) : a[i] = b[i]

\* squared magnitude of a 2-vector
Mag2(v) == v[1] * v[1] + v[2] * v[2]

InUnitSquare(p) == p[1] >= 0 /\ p[1] <= One /\ p[2] >= 0 /\ p[2] <= One

(* C1: in every reachable state the two off-screen buffers have distinct
   roles: the target the Update Pass writes (currentRenderTarget) is never
   the texture it reads as last frame's field (uLastFrame), and no Update
   Pass that ran read the buffer it wrote. *)
C1_DistinctRoles ==
    Running =>
        /\ currentRenderTarget # previousRenderTarget
        /\ currentRenderTarget # uLastFrame
        /\ uLastFrame = previousRenderTarget
        /\ updateWrote # "none" => updateRead # updateWrote

C1_Witness ==
    /\ pc = "composite"
    /\ frames = 2
    /\ updateWrote = "rtA"
    /\ updateRead = "rtB"
    /\ mouse # Unset
    /\ DOMAIN brush # DOMAIN ZeroTexture(<< 1, 1 >>)

(* C2: every frame, the first included, runs its steps in the order
   velocity, Update Pass, Composite Pass, swap; the Composite Pass reads the
   buffer the same frame's Update Pass wrote, and the next frame's Update
   Pass reads that buffer as its previous field. *)
C2_StepOrder ==
    Running =>
        /\ IsPrefix(stepLog, FrameSteps)
        /\ pc = "idle" => stepLog = FrameSteps
        /\ pc = "swap" => stepLog = SubSeq(FrameSteps, 1, 4)
        /\ pc \in {"swap", "idle"} => compositeRead = updateWrote
        /\ pc \in {"request", "velocity", "update"} /\ updateWrote # "none"
              => uLastFrame = updateWrote /\ currentRenderTarget # updateWrote
        /\ pc = "composite" /\ frames > 0 => updateRead = compositeRead

C2_FrameOrder ==
    /\ []C2_StepOrder
    /\ [][ pc = "update" /\ pc' = "composite" /\ updateWrote # "none"
              => updateRead' = updateWrote /\ updateWrote' # updateWrote ]_vars
    /\ [][ pc = "composite" /\ pc' = "swap" => compositeRead' = updateWrote ]_vars

C2_Witness ==
    /\ pc = "swap"
    /\ frames = 2
    /\ compositeRead = "rtA"
    /\ updateRead = "rtB"
    /\ \E t \in DOMAIN brush : tex["rtA"][t] # << 0, 0 >> /\ tex["rtB"][t] # tex["rtA"][t]

(* C3: pointer velocity changes only in the frame callback's velocity step,
   once per frame: the velocity a frame uses is the most recent pointer
   position at that frame minus the position the previous frame sampled;
   pointer events overwrite only the current position. *)
C3_VelocityState ==
    Running =>
        /\ mouse = pointerNow
        /\ pc # "velocity" /\ pc # "request" =>
              /\ mouseVelocity = << sampled[2][1] - sampled[1][1],
                                    sampled[2][2] - sampled[1][2] >>
              /\ lastMouse = sampled[2]
        /\ pc \in {"composite", "swap", "idle"} => frameVelocity = Uniform(mouseVelocity)
        /\ Cardinality({ i \in 1..Len(stepLog) : stepLog[i] = "velocity" }) <= 1

C3_VelocityPerFrame ==
    /\ []C3_VelocityState
    /\ [][ mouseVelocity' # mouseVelocity \/ lastMouse' # lastMouse
              => pc = "velocity" /\ pc' = "update" ]_vars
    /\ [][ pc = "idle" /\ pc' = "idle" /\ mouse' # mouse
              => mouse' = pointerNow' /\ lastEvent' # << >> ]_vars

C3_Witness ==
    /\ pc = "composite"
    /\ frames >= 2
    /\ sampled[1] # Unset
    /\ sampled[1] # sampled[2]
    /\ frameVelocity = << sampled[2][1] - sampled[1][1], 0 >>
    /\ lastEvent # << >>

(* C4, as claimed: in every reachable state the current normalized pointer
   position lies in [0,1] x [0,1]. *)
C4_Original == Running => InUnitSquare(mouse)

EventInsideCanvas ==
    /\ lastEvent # << >>
    /\ lastEvent[1] >= 0 /\ lastEvent[1] <= lastEvent[3]
    /\ lastEvent[2] >= 0 /\ lastEvent[2] <= lastEvent[4]

(* C4, amended: the position is (-1,-1) until the first pointer event;
   after a pointer event inside the canvas rectangle it lies in
   [0,1] x [0,1]; after one outside the rectangle it lies outside. *)
C4_PositionRange ==
    Running =>
        /\ lastEvent = << >> => mouse = Unset
        /\ EventInsideCanvas => InUnitSquare(mouse)
        /\ lastEvent # << >> /\ ~EventInsideCanvas => ~InUnitSquare(mouse)

C4_Witness ==
    /\ Running
    /\ EventInsideCanvas
    /\ mouse = << One \div 4, One \div 2 >>
    /\ frames >= 1

(* C5, as claimed: at most one frame is in flight and the request for the
   next frame is issued only once the current callback has returned. *)
C5_Original ==
    /\ rafPending <= 1
    /\ pc # "idle" => rafPending = 0

(* C5, amended: at most one callback runs and at most one request is
   pending; the request for the next frame is the first step of the current
   callback, before the velocity update, the passes and the swap, and the
   next callback starts only when the current one has returned. *)
C5_State ==
    /\ rafPending <= 1
    /\ Running =>
          /\ pc = "request" => rafPending = 0 /\ stepLog = << >>
          /\ pc # "request" => rafPending = 1 /\ stepLog # << >> /\ stepLog[1] = "request"
    /\ ~Running => rafPending = 0 /\ pc = "idle"

C5_OneFrameInFlight ==
    /\ []C5_State
    /\ [][ pc' = "request" => pc = "idle" ]_vars
    /\ [][ rafPending' > rafPending => pc = "request" /\ pc' = "velocity" ]_vars

C5_Witness ==
    /\ pc = "velocity"
    /\ rafPending = 1
    /\ frames >= 1

(* C7: the two buffers, the resolution parameter and the visible surface
   always have the same dimensions, those of the viewport, whatever the
   order of resizes, frames and swaps. *)
C7_SameDimensions ==
    Running =>
        /\ rendererSize = << innerWidth, innerHeight >>
        /\ \A r \in RenderTargets :
              /\ rtSize[r] = rendererSize
              /\ DOMAIN tex[r] = Texels(rendererSize)
        /\ uResolution = rendererSize

C7_Witness ==
    /\ Running
    /\ pc = "idle"
    /\ frames >= 1
    /\ currentRenderTarget = "rtB"
    /\ DOMAIN brush # Texels(uResolution)
    /\ rtSize["rtA"] = << 2, 1 >>

(* C9: if the canvas or THREE is absent the simulation is never initialized
   (no frame runs, no handler is registered) and 'webgl-failed' is set; if
   both are present it is initialized exactly once and the marker is never
   set. *)
C9_InitOrFallback ==
    /\ initCalls <= 1
    /\ phase = "loading" => initCalls = 0 /\ ~webglFailed /\ listeners = {}
    /\ phase # "loading" =>
          IF canvasPresent /\ threePresent
          THEN initCalls = 1 /\ ~webglFailed /\ phase = "running"
          ELSE /\ initCalls = 0 /\ webglFailed /\ phase = "fallback"
               /\ listeners = {} /\ frames = 0 /\ pc = "idle"
               /\ rafPending = 0 /\ stepLog = << >> /\ updateWrote = "none"

C9_Witness ==
    /\ phase = "fallback"
    /\ canvasPresent
    /\ ~threePresent
    /\ webglFailed
    /\ << innerWidth, innerHeight >> = << 2, 1 >>

(* C10, as claimed: for every pointer velocity, one Update Pass adds at a
   point at (aspect-corrected) distance 0 from the pointer a contribution
   strictly larger in magnitude than at a point at distance >= 0.2, where it
   adds none. *)
C10_Original ==
    \A t \in DOMAIN brush :
        /\ brush[t].dist = 0 => Mag2(brush[t].added) > 0
        /\ brush[t].dist >= Radius => brush[t].added = << 0, 0 >>

(* C10, amended: where smoothstep with descending edges follows the clamp
   formula, a non-zero velocity V adds 2.5 V (full strength) at distance 0,
   which is strictly more than at distance >= 0.2, where nothing is added;
   a zero velocity adds nothing anywhere. *)
C10_Brush ==
    reversedSmoothstep = "clamp" =>
        \A t \in DOMAIN brush :
            /\ brush[t].dist = 0 /\ frameVelocity # << 0, 0 >> =>
                  /\ brush[t].added = << FMul(frameVelocity[1], BrushGain),
                                         FMul(frameVelocity[2], BrushGain) >>
                  /\ Mag2(brush[t].added) > 0
            /\ brush[t].dist >= Radius => brush[t].added = << 0, 0 >>
            /\ frameVelocity = << 0, 0 >> => brush[t].added = << 0, 0 >>

C10_Witness ==
    /\ pc = "composite"
    /\ reversedSmoothstep = "clamp"
    /\ frameVelocity # << 0, 0 >>
    /\ \E t1, t2 \in DOMAIN brush :
          /\ brush[t1].dist = 0
          /\ Mag2(brush[t1].added) > 0
          /\ brush[t2].dist >= Radius
          /\ brush[t2].added = << 0, 0 >>

\* an Update Pass step of a frame whose pointer velocity is zero
DecayStep == pc = "update" /\ pc' = "composite" /\ mouseVelocity = << 0, 0 >>

(* C6, as claimed: over consecutive frames with zero pointer velocity the
   field magnitude at every point strictly decreases from each frame to the
   next (0.95 times the value the previous frame wrote) until it is zero.
   (The claim's "eventually reaches zero and stays there" rests on this
   strict decrease; a frame that leaves a non-zero value as it was refutes
   both.) *)
C6_Original ==
    [][ DecayStep =>
          \A t \in DOMAIN tex[updateWrote] : \A i \in 1..2 :
              LET old == tex[updateWrote][t][i]
                  new == tex'[currentRenderTarget][t][i]
              IN  /\ new = FMul(old, DecayFactor)
                  /\ old # 0 => Abs(new) < Abs(old) ]_vars

(* C6, amended: over consecutive frames with zero pointer velocity each
   frame writes the float product of 0.95 and the value the previous frame
   wrote; the magnitude never increases, strictly decreases while the value
   is a normal float, and zero stays zero.  (In the subnormal range the
   value may stop at a non-zero value instead of reaching zero.) *)
C6_Decay ==
    [][ DecayStep =>
          \A t \in DOMAIN tex[updateWrote] : \A i \in 1..2 :
              LET old == tex[updateWrote][t][i]
                  new == tex'[currentRenderTarget][t][i]
              IN  /\ new = FMul(old, DecayFactor)
                  /\ Abs(new) <= Abs(old)
                  /\ Abs(old) >= Pow2(MantissaBits - 1) => Abs(new) < Abs(old)
                  /\ old = 0 => new = 0 ]_vars

C6_Witness ==
    /\ pc = "composite"
    /\ mouseVelocity = << 0, 0 >>
    /\ ~flushDenormals
    /\ \E t \in DOMAIN tex[currentRenderTarget] :
          /\ tex[currentRenderTarget][t][1] # 0
          /\ tex[currentRenderTarget][t][1] = tex[uLastFrame][t][1]
          /\ tex[currentRenderTarget][t][2] # 0

(* C8: every response to /, /privacy, /tou or /non during which a template
   execution failed carries status 500, and the server keeps serving. *)
C8_Original ==
    /\ Len(responses) > 0 => serverState = "serving"
    /\ \A i \in 1..Len(responses) :
          responses[i].templateFailed => responses[i].status = 500

=============================================================================
